---------------------------- MODULE Spec2Model ----------------------------
(***************************************************************************)
(* A model of ScriptLoader (src/index.js): the sequential, promise-driven  *)
(* loading of a static group, a dynamic group and a final main script.     *)
(*                                                                         *)
(* One action is one task of the event loop together with the promise      *)
(* reactions (microtasks) it triggers: a call of init/load/reset by the    *)
(* embedding page, or the onload/onerror event of one script element.      *)
(***************************************************************************)
EXTENDS Naturals, Sequences, FiniteSets

(***************************************************************************)
(* Bounds of the model.                                                    *)
(***************************************************************************)
MaxLen == 2          \* longest statics/dynamics list of a request
MaxPipelines == 1    \* number of init/load calls on the one loader
MaxTime == 1         \* last value of the clock read by Date.now()

MaxInits == 2        \* init calls when the loader is initialised again
ReinitLen == 1       \* longest list of the requests used for that
MaxCalls == 2        \* direct calls of loadScripts by the page

(***************************************************************************)
(* JavaScript values, tagged by type.                                      *)
(***************************************************************************)
Undefined == [t |-> "undefined"]
Null == [t |-> "null"]
Str(s) == [t |-> "string", s |-> s]
Arr(a) == [t |-> "array", a |-> a]
Fn(n) == [t |-> "function", name |-> n]
Num(n) == [t |-> "number", num |-> n, den |-> 1]

\* The Array and String constructors, the defaults of the ScriptObject factory.
ArrayCtor == Fn("Array")
StringCtor == Fn("String")

\* ToBoolean, as applied by `if (v)` and `a && b`.
Truthy(v) ==
  CASE v.t = "undefined" -> FALSE
    [] v.t = "null" -> FALSE
    [] v.t = "string" -> v.s # ""
    [] v.t = "number" -> v.num # 0
    [] OTHER -> TRUE

\* v.length: the element count of an array, the declared arity (1) of the
\* Array and String constructors.
Length(v) ==
  CASE v.t = "array" -> Len(v.a)
    [] v.t = "function" -> 1
    [] OTHER -> 0

\* v[i] with a 0-based index: undefined outside an array's elements and on a
\* constructor function.
Get(v, i) ==
  IF v.t = "array" /\ i < Len(v.a) THEN Str(v.a[i + 1]) ELSE Undefined

\* Number(v), as applied by `-`: null counts as 0.
ToNumber(v) == IF v = Null THEN 0 ELSE v.num

\* String(v), as applied by `+` with a string operand.
ToString(v) ==
  CASE v.t = "string" -> v.s
    [] v.t = "function" -> "function " \o v.name \o "() { [native code] }"
    [] OTHER -> v.t

MsPerSecond == 1000

\* (end - start) / 1000 on millisecond clock readings, kept as a fraction.
ElapsedSeconds(start, end) ==
  IF end = start THEN Num(0)
  ELSE [t |-> "number", num |-> end - start, den |-> MsPerSecond]

(***************************************************************************)
(* Requests.  A caller passes an object whose fields may be absent, either *)
(* directly or through the ScriptObject factory.                           *)
(***************************************************************************)
Names == {"", "a"}

RECURSIVE SeqsUpTo(_)
SeqsUpTo(n) ==
  IF n = 0 THEN {<< >>}
  ELSE LET shorter == SeqsUpTo(n - 1)
       IN shorter \cup {Append(s, x) : s \in {q \in shorter : Len(q) = n - 1}, x \in Names}

Lists == {Undefined} \cup {Arr(s) : s \in SeqsUpTo(MaxLen)}
Mains == {Undefined, Str(""), Str("main")}
RawObjects == [statics : Lists, dynamics : Lists, main : Mains]

\* function ScriptObject(scriptsByType): destructuring defaults replace an
\* undefined field by the constructor named as its default.
ScriptObject(scriptsByType) ==
  [statics |-> IF scriptsByType.statics = Undefined THEN ArrayCtor ELSE scriptsByType.statics,
   dynamics |-> IF scriptsByType.dynamics = Undefined THEN ArrayCtor ELSE scriptsByType.dynamics,
   main |-> IF scriptsByType.main = Undefined THEN StringCtor ELSE scriptsByType.main]

Requests == RawObjects \cup {ScriptObject(r) : r \in RawObjects}

\* The requests of a page that initialises its loader more than once: lists
\* of proper names, main present or not.
ReinitLists == {Arr(q) : q \in {r \in SeqsUpTo(ReinitLen) : \A i \in DOMAIN r : r[i] # ""}}
ReinitRequests == [statics : ReinitLists, dynamics : ReinitLists, main : {Undefined, Str("main")}]

(***************************************************************************)
(* State.                                                                  *)
(***************************************************************************)
VARIABLES
  useLogger,          \* this.useLogger
  logWindow,          \* TRUE once log("init") has created this.logWindow
  startTime,          \* this.startTime
  endTime,            \* this.endTime
  staticContainer,    \* children of this.staticContainer, in document order
  dynamicContainer,   \* children of this.dynamicContainer, in document order
  pipes,              \* one record per call of load: its promises and closures
  dom,                \* children of this.mainContainer and of document.body
  now,                \* the clock read by Date.now(), in milliseconds
  lastOp              \* the operation performed by the last step

vars == <<useLogger, logWindow, startTime, endTime, staticContainer,
          dynamicContainer, pipes, dom, now, lastOp>>

Groups == {"static", "dynamic"}
Targets == {"static", "dynamic", "main"}

\* Promise states.
NoPromise == [state |-> "none", value |-> Undefined]
Pending == [state |-> "pending", value |-> Undefined]
Fulfilled(v) == [state |-> "fulfilled", value |-> v]
Rejected(r) == [state |-> "rejected", value |-> r]

NoLoad == [t |-> "none"]

\* The closure of one loadScripts call that has not been made.
NoGroup == [started |-> FALSE, scripts |-> Undefined, counter |-> 0, promise |-> NoPromise]

\* The state of one call of load before its body runs.
NewPipe(scriptObject, by) ==
  [scriptObject |-> scriptObject,
   by |-> by,
   group |-> [g \in Groups |-> NoGroup],
   all |-> Pending,
   result |-> Pending,
   main |-> NoPromise,
   inflight |-> [x \in Targets |-> NoLoad],
   events |-> [x \in Targets |-> << >>],
   finished |-> 0]

\* The part of the state one call chain reads and writes.
World(pipe) == [pipe |-> pipe, sc |-> staticContainer, dc |-> dynamicContainer, endTime |-> endTime]

scriptDirectoryPath == "./"


\* Mutant of loadScript: appends every script to the static container.
loadScriptAlwaysStatic(W, target, isStatic, name) ==
  LET script == [src |-> scriptDirectoryPath \o ToString(name) \o ".js"]
  IN [W EXCEPT
        !.pipe.inflight[target] = [t |-> "script", name |-> name, startTime |-> now],
        !.pipe.events[target] = Append(@, [e |-> "issue", name |-> name, isStatic |-> isStatic]),
        !.sc = Append(@, script)]

(***************************************************************************)
(* loadScript, lines 152-203: creates the script element, appends it to    *)
(* the container chosen by isStatic and returns a pending promise.  The    *)
(* caller `target` (a group's loadLoop, or load for the main script) holds *)
(* the promise; the element's handlers keep the name and the start time.   *)
(***************************************************************************)
loadScript(W, target, isStatic, name) ==
  LET script == [src |-> scriptDirectoryPath \o ToString(name) \o ".js"]
  IN [W EXCEPT
        !.pipe.inflight[target] = [t |-> "script", name |-> name, startTime |-> now],
        !.pipe.events[target] = Append(@, [e |-> "issue", name |-> name, isStatic |-> isStatic]),
        !.sc = IF isStatic THEN Append(@, script) ELSE @,
        !.dc = IF isStatic THEN @ ELSE Append(@, script)]

\* script.onload, lines 167-184: the value the promise of loadScript is
\* fulfilled with.
SuccessOutcome(L) ==
  LET totalTime == ElapsedSeconds(L.startTime, now)
  IN [isSuccess |-> TRUE,
      time |-> totalTime,
      payload |-> [message |-> <<"*", ToString(L.name), " script loaded in ", totalTime, "s.">>]]

\* script.onerror, lines 185-195: the value the promise of loadScript is
\* rejected with; err is the error event of the element.
ErrorOutcome(L) ==
  [isSuccess |-> FALSE,
   time |-> ElapsedSeconds(L.startTime, now),
   payload |-> [type |-> "error", target |-> scriptDirectoryPath \o ToString(L.name) \o ".js"]]

\* resolve() of the promise made by loadScripts, lines 126 and 133; the
\* promise derived from it by .then in load (lines 62-68, 75-81) settles alike.
resolveGroup(W, g) ==
  [W EXCEPT !.pipe.group[g].promise = Fulfilled(Undefined)]

\* Mutant of rejectGroup: wraps the error of the script in a group error.
rejectGroupWrapped(W, g, err) ==
  [W EXCEPT !.pipe.group[g].promise = Rejected([isSuccess |-> FALSE, group |-> g, cause |-> err])]

\* .catch((err) => reject(err)), line 131.
rejectGroup(W, g, err) ==
  [W EXCEPT !.pipe.group[g].promise = Rejected(err)]

\* Mutant of loadLoop: reads the entry after the one the counter names.
loadLoopOffByOne(W, g) ==
  LET G == W.pipe.group[g]
      name == Get(G.scripts, G.counter + 1)
  IN IF Truthy(name)
     THEN loadScript(W, g, g = "static", name)
     ELSE resolveGroup(W, g)

\* Mutant of loadLoop: loads the entry the counter names without testing it.
loadLoopUnchecked(W, g) ==
  loadScript(W, g, g = "static", Get(W.pipe.group[g].scripts, W.pipe.group[g].counter))

\* loadLoop, lines 111-135, up to the point where it waits for a script.
loadLoop(W, g) ==
  LET G == W.pipe.group[g]
      name == Get(G.scripts, G.counter)
  IN IF Truthy(name)
     THEN loadScript(W, g, g = "static", name)
     ELSE resolveGroup(W, g)

\* loadScripts, lines 107-140: a fresh counter and promise, then loadLoop.
loadScripts(W, g, scripts) ==
  loadLoop([W EXCEPT !.pipe.group[g] =
              [started |-> TRUE, scripts |-> scripts, counter |-> 0, promise |-> Pending]], g)

\* Mutant of loadLoopThen: does not resolve after the last script.
loadLoopThenNoResolve(W, g) ==
  LET G == W.pipe.group[g]
      W1 == IF useLogger
            THEN [W EXCEPT !.pipe.events[g] =
                    Append(@, [e |-> "progress", value |-> G.counter + 1, total |-> Length(G.scripts)])]
            ELSE W
      W2 == [W1 EXCEPT !.pipe.group[g].counter = @ + 1]
  IN IF G.counter + 1 >= Length(G.scripts)
     THEN W2
     ELSE loadLoop(W2, g)

\* The reaction of loadLoop to a loaded script, lines 114-130.
loadLoopThen(W, g) ==
  LET G == W.pipe.group[g]
      W1 == IF useLogger
            THEN [W EXCEPT !.pipe.events[g] =
                    Append(@, [e |-> "progress", value |-> G.counter + 1, total |-> Length(G.scripts)])]
            ELSE W
      W2 == [W1 EXCEPT !.pipe.group[g].counter = @ + 1]
  IN IF G.counter + 1 >= Length(G.scripts)
     THEN resolveGroup(W2, g)
     ELSE loadLoop(W2, g)

\* finish, lines 205-212.
finish(W) ==
  [W EXCEPT !.endTime = Num(now),
            !.pipe.finished = @ + 1,
            !.pipe.events["main"] =
               IF useLogger
               THEN Append(@, [e |-> "finish", totalTime |-> ElapsedSeconds(ToNumber(startTime), now)])
               ELSE @]

\* Mutant of allThen: calls finish as soon as the main script is issued,
\* without waiting for it to load.
allThenFinishEarly(W) ==
  LET main == W.pipe.scriptObject.main
      W1 == [W EXCEPT !.pipe.result = Fulfilled(Undefined)]
  IN IF Truthy(main)
     THEN finish([loadScript(W1, "main", TRUE, main) EXCEPT !.pipe.main = Pending])
     ELSE W1

\* Mutant of allThen: the callback returns the promise of the main load, so
\* the promise returned by load waits for it.
allThenReturnsMain(W) ==
  LET main == W.pipe.scriptObject.main
  IN IF Truthy(main)
     THEN [loadScript(W, "main", TRUE, main) EXCEPT !.pipe.main = Pending]
     ELSE [W EXCEPT !.pipe.result = Fulfilled(Undefined)]

\* The callback given to Promise.all(promises).then, lines 86-94. It returns
\* nothing, so the promise returned by load is fulfilled with undefined.
allThen(W) ==
  LET main == W.pipe.scriptObject.main
      W1 == [W EXCEPT !.pipe.result = Fulfilled(Undefined)]
  IN IF Truthy(main)
     THEN [loadScript(W1, "main", TRUE, main) EXCEPT !.pipe.main = Pending]
     ELSE W1

\* Mutant of promiseAll: waits for the groups to settle, as Promise.allSettled
\* does, and runs the callback whatever their outcome.
promiseAllSettled(W) ==
  LET P == W.pipe
      started == {g \in Groups : P.group[g].started}
  IN IF P.all.state # "pending" THEN W
     ELSE IF \A g \in started : P.group[g].promise.state \in {"fulfilled", "rejected"}
     THEN allThen([W EXCEPT !.pipe.all = Fulfilled(Undefined)])
     ELSE W

\* Mutant of promiseAll: runs the callback as soon as one started group is
\* fulfilled, as Promise.race or Promise.any would.
promiseAny(W) ==
  LET P == W.pipe
      started == {g \in Groups : P.group[g].started}
      failed == {g \in started : P.group[g].promise.state = "rejected"}
  IN IF P.all.state # "pending" THEN W
     ELSE IF failed # {}
     THEN LET reason == P.group[CHOOSE g \in failed : TRUE].promise.value
          IN [W EXCEPT !.pipe.all = Rejected(reason), !.pipe.result = Rejected(reason)]
     ELSE IF started = {} \/ \E g \in started : P.group[g].promise.state = "fulfilled"
     THEN allThen([W EXCEPT !.pipe.all = Fulfilled(Undefined)])
     ELSE W

\* Mutant of promiseAll: a rejection also abandons every load of the pipeline
\* that is in flight, as an aborting aggregate would.
promiseAllAborts(W) ==
  LET P == W.pipe
      started == {g \in Groups : P.group[g].started}
      failed == {g \in started : P.group[g].promise.state = "rejected"}
  IN IF P.all.state # "pending" THEN W
     ELSE IF failed # {}
     THEN LET reason == P.group[CHOOSE g \in failed : TRUE].promise.value
          IN [W EXCEPT !.pipe.all = Rejected(reason), !.pipe.result = Rejected(reason),
                       !.pipe.inflight = [x \in Targets |-> NoLoad]]
     ELSE IF \A g \in started : P.group[g].promise.state = "fulfilled"
     THEN allThen([W EXCEPT !.pipe.all = Fulfilled(Undefined)])
     ELSE W

\* Promise.all over the promises of the started groups, line 86: rejected
\* with the reason of the first rejection, fulfilled once all are fulfilled.
promiseAll(W) ==
  LET P == W.pipe
      started == {g \in Groups : P.group[g].started}
      failed == {g \in started : P.group[g].promise.state = "rejected"}
  IN IF P.all.state # "pending" THEN W
     ELSE IF failed # {}
     THEN LET reason == P.group[CHOOSE g \in failed : TRUE].promise.value
          IN [W EXCEPT !.pipe.all = Rejected(reason), !.pipe.result = Rejected(reason)]
     ELSE IF \A g \in started : P.group[g].promise.state = "fulfilled"
     THEN allThen([W EXCEPT !.pipe.all = Fulfilled(Undefined)])
     ELSE W

\* Mutant of loadBody: starts both group loads whatever the lists' lengths.
loadBodyNoLengthGuard(W) ==
  LET o == W.pipe.scriptObject
      W1 == IF Truthy(o.statics) THEN loadScripts(W, "static", o.statics) ELSE W
      W2 == IF Truthy(o.dynamics) THEN loadScripts(W1, "dynamic", o.dynamics) ELSE W1
  IN promiseAll(W2)

\* load, lines 54-95, with the reactions that run before the next task.
loadBody(W) ==
  LET o == W.pipe.scriptObject
      W1 == IF Truthy(o.statics) /\ Length(o.statics) > 0
            THEN loadScripts(W, "static", o.statics) ELSE W
      W2 == IF Truthy(o.dynamics) /\ Length(o.dynamics) > 0
            THEN loadScripts(W1, "dynamic", o.dynamics) ELSE W1
  IN promiseAll(W2)

(***************************************************************************)
(* Actions.                                                                *)
(***************************************************************************)
\* The outcome of one task becomes the next state. (The outcome is bound once:
\* V names the value of W.)
Commit(W, p) ==
  \E V \in {W} :
    /\ pipes' = IF p = Len(pipes) + 1 THEN Append(pipes, V.pipe) ELSE [pipes EXCEPT ![p] = V.pipe]
    /\ staticContainer' = V.sc
    /\ dynamicContainer' = V.dc
    /\ endTime' = V.endTime

\* parent.appendChild(child): a node that is already a child moves to the end.
appendChild(children, child) ==
  LET Other(c) == c # child
  IN Append(SelectSeq(children, Other), child)

\* log("init", ...), lines 215-235: a new log window is appended to the main
\* container. (The page is taken to declare the global `scriptObject` that
\* line 231 reads, as both examples do.)
logInit(d) ==
  [d EXCEPT !.mainContainer = Append(@, "log-window")]

\* setupScriptContainers, lines 41-52. `body.innerHTML +=` replaces every
\* child of the body by a parsed copy, so a main container attached by an
\* earlier call stays behind as a lifeless copy, while the element itself,
\* with the script containers and their children, is appended again.
setupScriptContainers(d) ==
  LET children == appendChild(appendChild(d.mainContainer, "static-scripts-container"),
                              "dynamic-scripts-container")
      Reparsed(node) ==
        IF node.node = "main-container" /\ node.live
        THEN [node |-> "main-container", live |-> FALSE, children |-> children,
              static |-> staticContainer, dynamic |-> dynamicContainer]
        ELSE node
      reparsed == [i \in DOMAIN d.body |-> Reparsed(d.body[i])]
  IN [mainContainer |-> children,
      body |-> Append(Append(reparsed, [node |-> "comment", live |-> FALSE]),
                      [node |-> "main-container", live |-> TRUE])]

\* new ScriptLoader(options), lines 10-23.
Init ==
  /\ useLogger \in BOOLEAN
  /\ logWindow = FALSE
  /\ startTime = Null
  /\ endTime = Null
  /\ staticContainer = << >>
  /\ dynamicContainer = << >>
  /\ pipes = << >>
  /\ dom = [mainContainer |-> << >>, body |-> << >>]
  /\ now = 0
  /\ lastOp = [op |-> "new"]

\* Mutant of init: starts every session with an empty static container.
initClearsStatics(scriptObject) ==
  /\ startTime' = Num(now)
  /\ logWindow' = (logWindow \/ useLogger)
  /\ dom' = setupScriptContainers(IF useLogger THEN logInit(dom) ELSE dom)
  /\ Commit(loadBody([World(NewPipe(scriptObject, "init")) EXCEPT !.sc = << >>]), Len(pipes) + 1)
  /\ lastOp' = [op |-> "init", p |-> Len(pipes) + 1]
  /\ UNCHANGED <<useLogger, now>>

\* init(scriptObject), lines 30-39.
init(scriptObject) ==
  /\ startTime' = Num(now)
  /\ logWindow' = (logWindow \/ useLogger)
  /\ dom' = setupScriptContainers(IF useLogger THEN logInit(dom) ELSE dom)
  /\ Commit(loadBody(World(NewPipe(scriptObject, "init"))), Len(pipes) + 1)
  /\ lastOp' = [op |-> "init", p |-> Len(pipes) + 1]
  /\ UNCHANGED <<useLogger, now>>

\* load(scriptObject) called by the page itself. With the logger on and no
\* log window yet, this.log throws at line 56 before anything is done.
load(scriptObject) ==
  /\ useLogger => logWindow
  /\ Commit(loadBody(World(NewPipe(scriptObject, "load"))), Len(pipes) + 1)
  /\ lastOp' = [op |-> "load", p |-> Len(pipes) + 1]
  /\ UNCHANGED <<useLogger, logWindow, startTime, dom, now>>

\* loadScripts(isStatic, scripts) called by the page itself, lines 107-140:
\* no script object, no Promise.all and no main. With the logger on and no
\* log window yet, this.log throws in loadScript (line 158) when the first
\* identifier is issued; the throw happens in the executor of the promise
\* (line 108), which is thereby rejected.
callLoadScripts(g, scripts) ==
  /\ LET W == [World(NewPipe(Undefined, "loadScripts")) EXCEPT !.pipe.all = NoPromise,
                                                              !.pipe.result = NoPromise]
         started == [started |-> TRUE, scripts |-> scripts, counter |-> 0,
                     promise |-> Rejected([type |-> "TypeError"])]
     IN IF useLogger /\ ~logWindow /\ Truthy(Get(scripts, 0))
        THEN Commit([W EXCEPT !.pipe.group[g] = started], Len(pipes) + 1)
        ELSE Commit(loadScripts(W, g, scripts), Len(pipes) + 1)
  /\ lastOp' = [op |-> "loadScripts", p |-> Len(pipes) + 1, target |-> g]
  /\ UNCHANGED <<useLogger, logWindow, startTime, dom, now>>

\* The load event of the script a group waits for.
onloadGroup(p, g) ==
  /\ pipes[p].inflight[g] # NoLoad
  /\ LET W == World(pipes[p])
         L == W.pipe.inflight[g]
         W1 == [W EXCEPT !.pipe.inflight[g] = NoLoad,
                         !.pipe.events[g] = Append(@, [e |-> "loaded", name |-> L.name, outcome |-> SuccessOutcome(L)])]
     IN \E V1 \in {W1} : \E V2 \in {loadLoopThen(V1, g)} : Commit(promiseAll(V2), p)
  /\ lastOp' = [op |-> "onload", p |-> p, target |-> g]
  /\ UNCHANGED <<useLogger, logWindow, startTime, dom, now>>

\* The error event of the script a group waits for.
onerrorGroup(p, g) ==
  /\ pipes[p].inflight[g] # NoLoad
  /\ LET W == World(pipes[p])
         L == W.pipe.inflight[g]
         err == ErrorOutcome(L)
         W1 == [W EXCEPT !.pipe.inflight[g] = NoLoad,
                         !.pipe.events[g] = Append(@, [e |-> "failed", name |-> L.name, outcome |-> err])]
     IN \E V1 \in {W1} : \E V2 \in {rejectGroup(V1, g, err)} : Commit(promiseAll(V2), p)
  /\ lastOp' = [op |-> "onerror", p |-> p, target |-> g]
  /\ UNCHANGED <<useLogger, logWindow, startTime, dom, now>>

\* The load event of the main script: line 90-92, then finish.
onloadMain(p) ==
  /\ pipes[p].inflight["main"] # NoLoad
  /\ LET W == World(pipes[p])
         L == W.pipe.inflight["main"]
         out == SuccessOutcome(L)
         W1 == [W EXCEPT !.pipe.inflight["main"] = NoLoad,
                         !.pipe.main = Fulfilled(out),
                         !.pipe.events["main"] = Append(@, [e |-> "loaded", name |-> L.name, outcome |-> out])]
     IN Commit(finish(W1), p)
  /\ lastOp' = [op |-> "onload", p |-> p, target |-> "main"]
  /\ UNCHANGED <<useLogger, logWindow, startTime, dom, now>>

\* The error event of the main script: its promise has no rejection handler.
onerrorMain(p) ==
  /\ pipes[p].inflight["main"] # NoLoad
  /\ LET W == World(pipes[p])
         L == W.pipe.inflight["main"]
         err == ErrorOutcome(L)
         W1 == [W EXCEPT !.pipe.inflight["main"] = NoLoad,
                         !.pipe.main = Rejected(err),
                         !.pipe.events["main"] = Append(@, [e |-> "failed", name |-> L.name, outcome |-> err])]
     IN Commit(W1, p)
  /\ lastOp' = [op |-> "onerror", p |-> p, target |-> "main"]
  /\ UNCHANGED <<useLogger, logWindow, startTime, dom, now>>

\* Mutant of reset: also abandons the dynamic loads that are in flight, as a
\* cancelling reset would.
resetCancels ==
  /\ dynamicContainer' = << >>
  /\ pipes' = [p \in DOMAIN pipes |-> [pipes[p] EXCEPT !.inflight["dynamic"] = NoLoad]]
  /\ lastOp' = [op |-> "reset", removed |-> Len(dynamicContainer), after |-> lastOp.op]
  /\ UNCHANGED <<useLogger, logWindow, startTime, endTime, staticContainer, dom, now>>

\* Mutant of reset: empties both script containers.
resetBoth ==
  /\ dynamicContainer' = << >>
  /\ staticContainer' = << >>
  /\ lastOp' = [op |-> "reset", removed |-> Len(dynamicContainer), after |-> lastOp.op]
  /\ UNCHANGED <<useLogger, logWindow, startTime, endTime, pipes, dom, now>>

\* reset(), lines 259-261.
reset ==
  /\ dynamicContainer' = << >>
  /\ lastOp' = [op |-> "reset", removed |-> Len(dynamicContainer), after |-> lastOp.op]
  /\ UNCHANGED <<useLogger, logWindow, startTime, endTime, staticContainer, pipes, dom, now>>

\* Time passes between two tasks.
Tick ==
  /\ now < MaxTime
  /\ now' = now + 1
  /\ lastOp' = [op |-> "tick"]
  /\ UNCHANGED <<useLogger, logWindow, startTime, endTime, staticContainer,
                 dynamicContainer, pipes, dom>>

Next ==
  \/ (Len(pipes) < MaxPipelines /\ \E o \in Requests : init(o))
  \/ (Len(pipes) < MaxPipelines /\ \E o \in Requests : load(o))
  \/ \E p \in 1..Len(pipes), g \in Groups : onloadGroup(p, g)
  \/ \E p \in 1..Len(pipes), g \in Groups : onerrorGroup(p, g)
  \/ \E p \in 1..Len(pipes) : onloadMain(p)
  \/ \E p \in 1..Len(pipes) : onerrorMain(p)
  \/ reset
  \/ Tick

Spec == Init /\ [][Next]_vars

\* The loader in an environment where a script that is awaited and does not
\* fail does load: the browser delivers the load event of every script whose
\* fetch succeeds, and the event loop runs its handler.
FairSpec ==
  /\ Init /\ [][Next]_vars
  /\ \A p \in 1..MaxPipelines :
       /\ WF_vars(p <= Len(pipes) /\ onloadMain(p))
       /\ \A g \in Groups : WF_vars(p <= Len(pipes) /\ onloadGroup(p, g))

\* The same loader on a page that calls init up to MaxInits times.
NextReinit ==
  \/ (Len(pipes) < MaxInits /\ \E o \in ReinitRequests : init(o))
  \/ \E p \in 1..Len(pipes), g \in Groups : onloadGroup(p, g)
  \/ \E p \in 1..Len(pipes), g \in Groups : onerrorGroup(p, g)
  \/ \E p \in 1..Len(pipes) : onloadMain(p)
  \/ \E p \in 1..Len(pipes) : onerrorMain(p)
  \/ reset
  \/ Tick

SpecReinit == Init /\ [][NextReinit]_vars

\* The same loader on a page that calls loadScripts itself, up to MaxCalls
\* times, with any list.
NextDirect ==
  \/ (Len(pipes) < MaxCalls /\ \E g \in Groups, scripts \in Lists \ {Undefined} : callLoadScripts(g, scripts))
  \/ \E p \in 1..Len(pipes), g \in Groups : onloadGroup(p, g)
  \/ \E p \in 1..Len(pipes), g \in Groups : onerrorGroup(p, g)
  \/ reset
  \/ Tick

SpecDirect == Init /\ [][NextDirect]_vars

(***************************************************************************)
(* Observations on the record of one pipeline.                             *)
(***************************************************************************)
Pipes == 1..Len(pipes)

IsIssue(ev) == ev.e = "issue"
IsLoaded(ev) == ev.e = "loaded"
IsFailed(ev) == ev.e = "failed"
IsProgress(ev) == ev.e = "progress"

\* The names of the events of one kind, in the order they happened.
Issued(P, x) == [i \in DOMAIN SelectSeq(P.events[x], IsIssue) |-> SelectSeq(P.events[x], IsIssue)[i].name.s]
Loaded(P, x) == [i \in DOMAIN SelectSeq(P.events[x], IsLoaded) |-> SelectSeq(P.events[x], IsLoaded)[i].name.s]
Progress(P, g) == SelectSeq(P.events[g], IsProgress)
HasFailed(P, x) == SelectSeq(P.events[x], IsFailed) # << >>
MainIssued(P) == SelectSeq(P.events["main"], IsIssue) # << >>

\* The entries of a group of the request: those of the list, none otherwise.
Entries(v) == IF v.t = "array" THEN v.a ELSE << >>
Field(o, g) == IF g = "static" THEN o.statics ELSE o.dynamics

(***************************************************************************)
(* C1: main is issued only after every entry of statics and of dynamics,   *)
(* empty strings included, has been issued and has loaded successfully.    *)
(* The code ends a group at its first empty entry (loadLoop, line 112).    *)
(***************************************************************************)
C1_MainAfterEveryEntry ==
  \A p \in Pipes :
    MainIssued(pipes[p]) =>
      \A g \in Groups :
        /\ Issued(pipes[p], g) = Entries(Field(pipes[p].scriptObject, g))
        /\ Loaded(pipes[p], g) = Entries(Field(pipes[p].scriptObject, g))

(***************************************************************************)
(* C2: once a static or dynamic script has failed, the main script is      *)
(* never issued and finish is never called.                                *)
(***************************************************************************)
C2_MainGating ==
  \A p \in Pipes :
    (\E g \in Groups : HasFailed(pipes[p], g)) =>
      /\ ~MainIssued(pipes[p])
      /\ pipes[p].main = NoPromise
      /\ pipes[p].finished = 0

\* One group failed after the other had loaded all its scripts, main is set.
C2_Witness ==
  \E p \in Pipes : \E g, h \in Groups :
    /\ g # h
    /\ HasFailed(pipes[p], g)
    /\ Len(Loaded(pipes[p], h)) = 2
    /\ pipes[p].group[h].promise.state = "fulfilled"
    /\ Truthy(pipes[p].scriptObject.main)

\* The number of events of one kind among the first i events.
Count(ev, i, Test(_)) == Cardinality({k \in 1..i : Test(ev[k])})

(***************************************************************************)
(* C3: within one loadScripts call the scripts are issued in index order,  *)
(* each only after every earlier one has loaded successfully; progress     *)
(* events come in the same order; at most one load of the group is in      *)
(* flight.                                                                 *)
(***************************************************************************)
C3_SequentialGroup ==
  \A p \in Pipes : \A g \in Groups :
    LET P == pipes[p]
        ev == P.events[g]
        n == Len(ev)
    IN /\ \A j \in DOMAIN Issued(P, g) :
            /\ j <= Length(P.group[g].scripts)
            /\ Issued(P, g)[j] = Get(P.group[g].scripts, j - 1).s
       /\ \A i \in 1..n :
            IsIssue(ev[i]) =>
              /\ Count(ev, i - 1, IsLoaded) = Count(ev, i - 1, IsIssue)
              /\ Count(ev, i - 1, IsFailed) = 0
              /\ useLogger => Count(ev, i - 1, IsProgress) = Count(ev, i - 1, IsLoaded)
       /\ \A i \in 1..n :
            IsProgress(ev[i]) =>
              /\ IsLoaded(ev[i - 1])
              /\ ev[i].value = Count(ev, i, IsLoaded)
              /\ ev[i].value = Count(ev, i, IsProgress)
       /\ Count(ev, n, IsIssue) - (Count(ev, n, IsLoaded) + Count(ev, n, IsFailed))
            = (IF P.inflight[g] = NoLoad THEN 0 ELSE 1)

\* A logged group of two scripts whose second load is in flight.
C3_Witness ==
  \E p \in Pipes : \E g \in Groups :
    /\ useLogger
    /\ Len(Issued(pipes[p], g)) = 2
    /\ Len(Loaded(pipes[p], g)) = 1
    /\ Len(Progress(pipes[p], g)) = 1
    /\ pipes[p].inflight[g] # NoLoad

(***************************************************************************)
(* C4: when the load of s(k) fails, no later identifier of the group is    *)
(* issued and the group's promise is rejected with exactly the value that  *)
(* loadScript rejected with.                                               *)
(***************************************************************************)
C4_FailFast ==
  \A p \in Pipes : \A g \in Groups :
    LET P == pipes[p]
        ev == P.events[g]
    IN \A i \in 1..Len(ev) :
         IsFailed(ev[i]) =>
           /\ i = Len(ev)
           /\ P.inflight[g] = NoLoad
           /\ P.group[g].promise = Rejected(ev[i].outcome)
           /\ P.group[g].promise.value.isSuccess = FALSE
           /\ P.group[g].promise.value.payload =
                [type |-> "error", target |-> scriptDirectoryPath \o ev[i].name.s \o ".js"]

\* The first of two scripts failed: the second is never issued.
C4_Witness ==
  \E p \in Pipes : \E g \in Groups :
    /\ HasFailed(pipes[p], g)
    /\ Len(Issued(pipes[p], g)) = 1
    /\ Length(pipes[p].group[g].scripts) = 2
    /\ Truthy(Get(pipes[p].group[g].scripts, 1))
    /\ pipes[p].group[g].promise.state = "rejected"

(***************************************************************************)
(* C5: every failed load, of a static, a dynamic or the main script,       *)
(* rejects the promise returned by load.  The promise of the main load is  *)
(* not returned from the callback at lines 88-93, so its failure is lost.  *)
(***************************************************************************)
C5_EveryFailureRejectsLoad ==
  \A p \in Pipes :
    (\E x \in Targets : HasFailed(pipes[p], x)) => pipes[p].result.state = "rejected"

(***************************************************************************)
(* C6: finish is called at most once for a pipeline, and only after its    *)
(* main script, which must be set, has loaded; with main absent or failed  *)
(* finish is not called, and endTime stays unset while no pipeline has     *)
(* finished.                                                               *)
(***************************************************************************)
C6_FinishOnlyAfterMain ==
  /\ \A p \in Pipes :
       LET P == pipes[p]
       IN /\ P.finished <= 1
          /\ P.finished = 1 =>
               /\ Truthy(P.scriptObject.main)
               /\ P.main.state = "fulfilled"
               /\ P.main.value.isSuccess
               /\ endTime # Null
          /\ (P.scriptObject.main = Undefined \/ HasFailed(P, "main")) => P.finished = 0
          /\ P.main.state \in {"none", "pending", "rejected"} => P.finished = 0
  /\ (\A p \in Pipes : pipes[p].finished = 0) => endTime = Null

\* The main script has loaded and finish has set endTime.
C6_Witness ==
  \E p \in Pipes :
    /\ pipes[p].finished = 1
    /\ pipes[p].main.state = "fulfilled"
    /\ endTime # Null

(***************************************************************************)
(* C7: a logged group of N string identifiers whose loads all succeed      *)
(* emits exactly N progress events, the i-th with completed = i and        *)
(* total = N.  An empty identifier ends the group early (see C1), so the   *)
(* events after it are missing.                                            *)
(***************************************************************************)
C7_ProgressCount ==
  \A p \in Pipes : \A g \in Groups :
    LET G == pipes[p].group[g]
        N == Length(G.scripts)
    IN (useLogger /\ G.started /\ G.scripts.t = "array" /\ G.promise.state = "fulfilled") =>
         Progress(pipes[p], g) = [i \in 1..N |-> [e |-> "progress", value |-> i, total |-> N]]

(***************************************************************************)
(* C8: an absent statics, dynamics or main, passed directly or through the *)
(* ScriptObject factory, is treated as empty: no load is issued for an     *)
(* absent group, and with main absent no main load is issued and finish is *)
(* not called.  The factory defaults main to the String constructor, which *)
(* load takes for a name.                                                  *)
(***************************************************************************)
C8_AbsentFieldsAreEmpty ==
  \A p \in Pipes :
    LET P == pipes[p]
        o == P.scriptObject
    IN /\ \A g \in Groups : Field(o, g) \in {Undefined, ArrayCtor} => P.events[g] = << >>
       /\ o.main \in {Undefined, StringCtor} => (~MainIssued(P) /\ P.finished = 0)

(***************************************************************************)
(* C9: reset empties the dynamic container and leaves the static container *)
(* as it was; a reset that directly follows a reset changes nothing.       *)
(***************************************************************************)
C9_ResetIdempotent ==
  [][lastOp'.op = "reset" =>
       /\ dynamicContainer' = << >>
       /\ staticContainer' = staticContainer
       /\ lastOp.op = "reset" =>
            UNCHANGED <<useLogger, logWindow, startTime, endTime, staticContainer,
                        dynamicContainer, pipes, dom, now>>]_vars

\* A second consecutive reset, with static scripts present and dynamic
\* scripts removed by the first.
C9_Witness ==
  /\ lastOp.op = "reset"
  /\ lastOp.after = "reset"
  /\ staticContainer # << >>
  /\ dynamicContainer = << >>
  /\ \E p \in Pipes : Issued(pipes[p], "dynamic") # << >>

(***************************************************************************)
(* C10: with empty statics, empty dynamics and a main name, load starts no *)
(* group, issues the main script and nothing else, and succeeds when the   *)
(* main script loads.                                                      *)
(***************************************************************************)
C10_OnlyMain ==
  \A p \in Pipes :
    LET P == pipes[p]
        o == P.scriptObject
    IN (o.statics = Arr(<< >>) /\ o.dynamics = Arr(<< >>) /\ o.main.t = "string" /\ Truthy(o.main)) =>
         /\ \A g \in Groups : ~P.group[g].started /\ P.events[g] = << >>
         /\ SelectSeq(P.events["main"], IsIssue) =
              <<[e |-> "issue", name |-> o.main, isStatic |-> TRUE]>>
         /\ P.result = Fulfilled(Undefined)
         /\ P.main.state = "fulfilled" => P.finished = 1

\* Such a request whose main script has loaded.
C10_Witness ==
  \E p \in Pipes :
    /\ pipes[p].scriptObject.statics = Arr(<< >>)
    /\ pipes[p].scriptObject.dynamics = Arr(<< >>)
    /\ pipes[p].main.state = "fulfilled"
    /\ pipes[p].finished = 1

(***************************************************************************)
(* C11: the main load never overlaps a group load of its pipeline: while   *)
(* main is in flight no static or dynamic load is in flight, and once main *)
(* has been issued no static or dynamic load is issued any more.           *)
(***************************************************************************)
C11_MainNeverOverlaps ==
  [][\A p \in 1..Len(pipes') : \A g \in Groups :
       /\ pipes'[p].inflight["main"] # NoLoad => pipes'[p].inflight[g] = NoLoad
       /\ (p <= Len(pipes) /\ MainIssued(pipes[p])) =>
            pipes'[p].events[g] = pipes[p].events[g]]_vars

\* Main is in flight after both groups have loaded a script.
C11_Witness ==
  \E p \in Pipes :
    /\ pipes[p].inflight["main"] # NoLoad
    /\ \A g \in Groups : Len(Loaded(pipes[p], g)) >= 1

\* The locator of a script, as loadScript builds it (line 166).
Src(name) == scriptDirectoryPath \o ToString(name) \o ".js"

\* The loads issued into the static container so far, by any pipeline.
StaticIssues ==
  UNION {{<<p, x, i>> : i \in {k \in DOMAIN pipes[p].events[x] :
                                 /\ IsIssue(pipes[p].events[x][k])
                                 /\ pipes[p].events[x][k].isStatic}} :
         p \in Pipes, x \in Targets}

\* s is t with entries added at its end.
IsPrefix(s, t) == Len(s) <= Len(t) /\ \A i \in DOMAIN s : t[i] = s[i]

(***************************************************************************)
(* C12: init called again sets startTime to the time of the new call and   *)
(* removes nothing from the static container; the container holds one      *)
(* entry for every static load issued, so a static name requested by k     *)
(* init calls is inserted k times.                                         *)
(***************************************************************************)
C12_ReinitKeepsStatics ==
  [][/\ lastOp'.op = "init" =>
          /\ startTime' = Num(now)
          /\ IsPrefix(staticContainer, staticContainer')
          /\ dom'.mainContainer[Len(dom'.mainContainer) - 1] = "static-scripts-container"
          /\ dom'.body[Len(dom'.body)] = [node |-> "main-container", live |-> TRUE]
     /\ Len(staticContainer') = Cardinality(StaticIssues')
     /\ \A n \in Names \cup {"main"} :
          Cardinality({i \in DOMAIN staticContainer' : staticContainer'[i].src = Src(Str(n))})
            = Cardinality({t \in StaticIssues' : pipes'[t[1]].events[t[2]][t[3]].name = Str(n)})
    ]_vars

\* Two init calls with the same statics, the second at a later time: the
\* name is in the static container twice.
C12_Witness ==
  /\ Len(pipes) = 2
  /\ \A p \in Pipes : pipes[p].by = "init" /\ pipes[p].scriptObject.statics = Arr(<<"a">>)
  /\ pipes[1].inflight["static"] # NoLoad
  /\ pipes[1].inflight["static"].startTime = 0
  /\ startTime = Num(1)
  /\ staticContainer = <<[src |-> "./a.js"], [src |-> "./a.js"]>>

\* The loads of one target that have been issued and have not completed.
InFlight(P, x) ==
  Count(P.events[x], Len(P.events[x]), IsIssue)
    - (Count(P.events[x], Len(P.events[x]), IsLoaded) + Count(P.events[x], Len(P.events[x]), IsFailed))

(***************************************************************************)
(* C13: with statics and dynamics both non-empty, load issues the first    *)
(* static and the first dynamic load in the same call, neither waiting for *)
(* the other; a group never has more than one load in flight and the       *)
(* groups together never more than two.  A list that begins with an empty  *)
(* identifier gets no load at all (see C1).                                *)
(***************************************************************************)
C13_GroupsStartTogether ==
  \A p \in Pipes :
    LET P == pipes[p]
        o == P.scriptObject
    IN /\ (/\ o.statics.t = "array" /\ Len(o.statics.a) > 0
           /\ o.dynamics.t = "array" /\ Len(o.dynamics.a) > 0) =>
            /\ Issued(P, "static") # << >>
            /\ Issued(P, "dynamic") # << >>
       /\ \A g \in Groups : InFlight(P, g) <= 1
       /\ InFlight(P, "static") + InFlight(P, "dynamic") <= 2

\* The part of C13 that does not depend on the first identifiers: both group
\* loads are started by the call of load, and the bounds on loads in flight.
C13_StartedTogether ==
  \A p \in Pipes :
    LET P == pipes[p]
        o == P.scriptObject
    IN /\ (/\ o.statics.t = "array" /\ Len(o.statics.a) > 0
           /\ o.dynamics.t = "array" /\ Len(o.dynamics.a) > 0) =>
            /\ \A g \in Groups : P.group[g].started
            /\ Truthy(Get(o.statics, 0)) => Issued(P, "static") # << >>
            /\ Truthy(Get(o.dynamics, 0)) => Issued(P, "dynamic") # << >>
       /\ \A g \in Groups : InFlight(P, g) <= 1
       /\ InFlight(P, "static") + InFlight(P, "dynamic") <= 2

\* Some load of the pipeline has failed.
AnyFailed(P) == \E x \in Targets : HasFailed(P, x)

(***************************************************************************)
(* C15: a pipeline started by init with main set, none of whose loads      *)
(* fails, eventually issues main and calls finish, which sets endTime.     *)
(***************************************************************************)
C15_EventuallyFinishes ==
  \A p \in 1..MaxPipelines :
    (p <= Len(pipes) /\ pipes[p].by = "init" /\ Truthy(pipes[p].scriptObject.main))
      ~> (/\ p <= Len(pipes)
          /\ \/ AnyFailed(pipes[p])
             \/ /\ MainIssued(pipes[p])
                /\ pipes[p].main.state = "fulfilled"
                /\ pipes[p].finished = 1
                /\ endTime # Null)

\* Both groups and main have loaded and finish has been called.
C15_Witness ==
  \E p \in Pipes :
    /\ pipes[p].by = "init"
    /\ \A g \in Groups : Len(Loaded(pipes[p], g)) = 2
    /\ pipes[p].finished = 1
    /\ endTime # Null


\* The identifiers loadLoop reaches in a list: all of them, or those before
\* the first one that fails the test of line 112.
Reached(P, g) ==
  LET scripts == P.group[g].scripts
      n == Len(Issued(P, g))
  IN /\ \A j \in 1..n : Issued(P, g)[j] = Get(scripts, j - 1).s
     /\ n = Length(scripts) \/ ~Truthy(Get(scripts, n))

(***************************************************************************)
(* C14: reset cancels nothing.  A reset step leaves every pending load,    *)
(* every loadLoop closure and every promise as it was; and a dynamic group *)
(* that is waiting for a script when reset has just been called still      *)
(* sees, unless some load fails, that script and every later identifier    *)
(* the loop reaches loaded, in order, its promise fulfilled, and, when     *)
(* main is set, main loaded and finish called.                             *)
(***************************************************************************)
C14_ResetCancelsNothing ==
  /\ [][lastOp'.op = "reset" => pipes' = pipes]_vars
  /\ \A p \in 1..MaxPipelines :
       (/\ p <= Len(pipes)
        /\ lastOp.op = "reset"
        /\ pipes[p].group["dynamic"].promise.state = "pending")
         ~> (/\ p <= Len(pipes)
             /\ \/ AnyFailed(pipes[p])
                \/ /\ pipes[p].group["dynamic"].promise.state = "fulfilled"
                   /\ Reached(pipes[p], "dynamic")
                   /\ Loaded(pipes[p], "dynamic") = Issued(pipes[p], "dynamic")
                   /\ Truthy(pipes[p].scriptObject.main) =>
                        /\ MainIssued(pipes[p])
                        /\ pipes[p].main.state = "fulfilled"
                        /\ pipes[p].finished = 1
                        /\ endTime # Null)

\* reset was called while the first of two dynamic scripts was in flight (the
\* container holds the second only); both have loaded, and so has main.
C14_Witness ==
  \E p \in Pipes :
    /\ Len(Issued(pipes[p], "dynamic")) = 2
    /\ Len(Loaded(pipes[p], "dynamic")) = 2
    /\ dynamicContainer = <<[src |-> "./a.js"]>>
    /\ pipes[p].main.state = "fulfilled"
    /\ pipes[p].finished = 1


\* The loads issued by the step that is being taken, as places in the event
\* logs of the next state: those into the static container, or those into
\* the dynamic one.
StepIssues(isStatic) ==
  UNION {{<<p, x, i>> : i \in {k \in DOMAIN pipes'[p].events[x] :
                                 /\ k > (IF p <= Len(pipes) THEN Len(pipes[p].events[x]) ELSE 0)
                                 /\ IsIssue(pipes'[p].events[x][k])
                                 /\ pipes'[p].events[x][k].isStatic = isStatic}} :
         p \in 1..Len(pipes'), x \in Targets}

\* The container after the step is the container before it with one entry
\* added at its end for the load in I, and nothing else changed.
AppendedBy(before, after, I) ==
  \/ I = {} /\ after = before
  \/ \E t \in I :
       /\ I = {t}
       /\ after = Append(before, [src |-> Src(pipes'[t[1]].events[t[2]][t[3]].name)])

(***************************************************************************)
(* C16: the script containers change only through loadScript and reset.    *)
(* A reset step empties the dynamic container and leaves the static one;   *)
(* in every other step each call of loadScript adds exactly one entry, the *)
(* locator of its script, at the end of one container: the static one for  *)
(* a static script and for main, the dynamic one for a dynamic script.     *)
(* Nothing else changes a container and no step removes a static entry.    *)
(***************************************************************************)
C16_ContainersFrame ==
  [][/\ IF lastOp'.op = "reset"
        THEN /\ staticContainer' = staticContainer
             /\ dynamicContainer' = << >>
             /\ StepIssues(TRUE) \cup StepIssues(FALSE) = {}
        ELSE /\ AppendedBy(staticContainer, staticContainer', StepIssues(TRUE))
             /\ AppendedBy(dynamicContainer, dynamicContainer', StepIssues(FALSE))
     /\ \A t \in StepIssues(TRUE) : t[2] \in {"static", "main"}
     /\ \A t \in StepIssues(FALSE) : t[2] = "dynamic"
     /\ IsPrefix(staticContainer, staticContainer')
    ]_vars

\* Two statics, two dynamics and main have been issued, then reset called:
\* the static container holds its three entries, the dynamic one is empty.
C16_Witness ==
  /\ lastOp.op = "reset"
  /\ lastOp.removed = 2
  /\ dynamicContainer = << >>
  /\ staticContainer = <<[src |-> "./a.js"], [src |-> "./a.js"], [src |-> "./main.js"]>>


(***************************************************************************)
(* C17: loadScripts called with an empty list returns a promise that is    *)
(* fulfilled at once; the call issues no load, appends to no container and *)
(* emits no progress event, then or later, with the logger on or off.      *)
(***************************************************************************)
C17_EmptyListResolves ==
  [][\A p \in 1..Len(pipes') : \A g \in Groups :
       (/\ pipes'[p].by = "loadScripts"
        /\ pipes'[p].group[g].started
        /\ pipes'[p].group[g].scripts = Arr(<< >>)) =>
         /\ pipes'[p].group[g].promise = Fulfilled(Undefined)
         /\ pipes'[p].events[g] = << >>
         /\ pipes'[p].inflight[g] = NoLoad
         /\ p > Len(pipes) => UNCHANGED <<staticContainer, dynamicContainer>>
    ]_vars

\* loadScripts has been called with an empty list while a script of an
\* earlier call is in flight.
C17_Witness ==
  /\ Len(pipes) = 2
  /\ \E g \in Groups : pipes[1].inflight[g] # NoLoad
  /\ lastOp.op = "loadScripts"
  /\ pipes[2].by = "loadScripts"
  /\ \E g \in Groups :
       /\ pipes[2].group[g].started
       /\ pipes[2].group[g].scripts = Arr(<< >>)
       /\ pipes[2].group[g].promise.state = "fulfilled"


\* The script container a group appends to.
Container(g) == IF g = "static" THEN staticContainer ELSE dynamicContainer

(***************************************************************************)
(* C18: a failure in one group does not stop the other.  The step in which *)
(* a load of group g fails rejects the promise of load and leaves the      *)
(* closure and the pending load of the other group as they were.  When a   *)
(* script of the other group loads after that, its next identifier is      *)
(* issued and its container grows; and, unless one of its own loads fails, *)
(* the other group goes on to load, in order, every identifier its loop    *)
(* reaches, and is fulfilled.                                              *)
(***************************************************************************)
C18_FailureLeavesOtherGroup ==
  /\ [][\A p \in 1..Len(pipes) : \A g, h \in Groups :
          /\ (g # h /\ lastOp' = [op |-> "onerror", p |-> p, target |-> g]) =>
               /\ pipes'[p].result.state = "rejected"
               /\ pipes'[p].group[h] = pipes[p].group[h]
               /\ pipes'[p].inflight[h] = pipes[p].inflight[h]
               /\ pipes'[p].events[h] = pipes[p].events[h]
          /\ (/\ lastOp' = [op |-> "onload", p |-> p, target |-> h]
              /\ pipes[p].result.state = "rejected"
              /\ Truthy(Get(pipes[p].group[h].scripts, pipes[p].group[h].counter + 1))) =>
               /\ Issued(pipes'[p], h) =
                    Append(Issued(pipes[p], h),
                           Get(pipes[p].group[h].scripts, pipes[p].group[h].counter + 1).s)
               /\ Len(Container(h)') = Len(Container(h)) + 1
       ]_vars
  /\ \A p \in 1..MaxPipelines : \A h \in Groups :
       (/\ p <= Len(pipes)
        /\ pipes[p].result.state = "rejected"
        /\ pipes[p].group[h].promise.state = "pending")
         ~> (/\ p <= Len(pipes)
             /\ \/ HasFailed(pipes[p], h)
                \/ /\ pipes[p].group[h].promise.state = "fulfilled"
                   /\ Reached(pipes[p], h)
                   /\ Loaded(pipes[p], h) = Issued(pipes[p], h))

\* The first script of one group has failed, load's promise is rejected, and
\* the load of the first script of the other group has just issued the second.
C18_Witness ==
  \E p \in Pipes : \E g, h \in Groups :
    /\ g # h
    /\ HasFailed(pipes[p], g)
    /\ pipes[p].result.state = "rejected"
    /\ lastOp = [op |-> "onload", p |-> p, target |-> h]
    /\ Len(Issued(pipes[p], h)) = 2
    /\ Len(Loaded(pipes[p], h)) = 1
    /\ Len(Container(h)) = 2


\* Every group load that load started has succeeded.
GroupsFulfilled(P) ==
  \A g \in Groups : P.group[g].started => P.group[g].promise.state = "fulfilled"

(***************************************************************************)
(* C19: the promise returned by load is fulfilled, with undefined, exactly *)
(* when every started group load has succeeded.  When main is set this is  *)
(* the step that issues the main load: at that moment the main load is     *)
(* pending and finish has not been called.  What happens to main later     *)
(* does not change the promise.                                            *)
(***************************************************************************)
C19_LoadFulfilledAtMainIssue ==
  [][\A p \in 1..Len(pipes') :
       LET P == pipes'[p]
           wasFulfilled == p <= Len(pipes) /\ pipes[p].result.state = "fulfilled"
       IN P.by \in {"init", "load"} =>
            /\ (P.result.state = "fulfilled") <=> GroupsFulfilled(P)
            /\ P.result.state = "fulfilled" => P.result = Fulfilled(Undefined)
            /\ Truthy(P.scriptObject.main) => (MainIssued(P) <=> P.result.state = "fulfilled")
            /\ wasFulfilled => P.result = pipes[p].result
            /\ (P.result.state = "fulfilled" /\ ~wasFulfilled /\ Truthy(P.scriptObject.main)) =>
                 /\ P.inflight["main"] # NoLoad
                 /\ P.main = Pending
                 /\ P.finished = 0
                 /\ ~(p <= Len(pipes) /\ MainIssued(pipes[p]))
    ]_vars

\* The promise of load is fulfilled after both groups loaded two scripts,
\* while the main load is pending and finish has not been called.
C19_Witness ==
  \E p \in Pipes :
    /\ pipes[p].result = Fulfilled(Undefined)
    /\ \A g \in Groups : Len(Loaded(pipes[p], g)) = 2
    /\ pipes[p].inflight["main"] # NoLoad
    /\ pipes[p].main = Pending
    /\ pipes[p].finished = 0
    /\ endTime = Null

=============================================================================
